---- MODULE Spec2Model ----
(***************************************************************************)
(* Content resolution core of the kwezi backend (server.py):               *)
(*   - get_word_audio_by_language : audio locator + CDN redirect builder   *)
(*   - get_sentences              : variety-constrained sentence sampler   *)
(*   - get_words                  : the words listing and its route         *)
(* Strings are sequences of one-character strings; a document is a         *)
(* function from the keys it holds to tagged values.                        *)
(***************************************************************************)
EXTENDS Integers, Sequences, FiniteSets, TLC

VARIABLES
    words_collection,   \* the vocabulary documents of the store
    request,            \* the last audio request: word_id, lang
    response,           \* what the caller of the audio request received
    frame,              \* the handler's locals when it left
    sentences_collection, \* the practice sentences of the store, in storage order
    sentences_request,  \* the sentence request in progress: difficulty, tense, limit
    pc,                 \* where get_sentences stands
    all_sentences,      \* get_sentences: the loaded list, shuffled in place
    sentences,          \* get_sentences: the selection
    unique_verbs,       \* get_sentences: distinct lead tokens of the selection
    attempts,           \* get_sentences: iterations of the while loop so far
    shuffles,           \* calls of random.shuffle made for the request
    sentences_response, \* what the caller of get_sentences received
    words_request,      \* the listing request: path and query parameters
    words_response,     \* what the caller of the listing request received
    word_request,       \* the single-word request: method, word_id, body
    word_response,      \* what the caller of the single-word request received
    word_frame,         \* whether the single-word handler's store call matched
    user_badges,        \* the badge records of the store, in storage order
    calls               \* the unlock_badge calls: position, arguments, locals

audioVars == <<words_collection, request, response, frame>>
sentenceVars == <<sentences_collection, sentences_request, pc, all_sentences,
                  sentences, unique_verbs, attempts, shuffles, sentences_response>>
listingVars == <<words_request, words_response>>
wordVars == <<word_request, word_response, word_frame>>
badgeVars == <<user_badges, calls>>

-----------------------------------------------------------------------------
(* Python values                                                           *)

Str(s)  == [t |-> "str",  s |-> s,    b |-> FALSE]
IntVal(n) == [t |-> "int",  s |-> <<>>, b |-> FALSE, n |-> n]
Bool(b) == [t |-> "bool", s |-> <<>>, b |-> b]
None    == [t |-> "none", s |-> <<>>, b |-> FALSE]
\* marks a key the document does not hold; never a value of a document
Absent  == [t |-> "absent", s |-> <<>>, b |-> FALSE]

\* bool(v)
Truthy(v) ==
    CASE v.t = "str"  -> v.s # <<>>
      [] v.t = "bool" -> v.b
      [] v.t = "int"  -> v.n # 0
      [] OTHER        -> FALSE

\* a or b
Or(a, b) == IF Truthy(a) THEN a ELSE b

\* doc.get(key)  /  doc.get(key, default)
Get(doc, key) == IF key \in DOMAIN doc THEN doc[key] ELSE None
GetDefault(doc, key, default) == IF key \in DOMAIN doc THEN doc[key] ELSE default

\* str(v) as an f-string renders it
Format(v) ==
    CASE v.t = "str"  -> v.s
      [] v.t = "none" -> <<"N", "o", "n", "e">>
      [] v.t = "bool" -> IF v.b THEN <<"T", "r", "u", "e">> ELSE <<"F", "a", "l", "s", "e">>
      [] OTHER        -> <<>>

\* sep in s
Contains(s, sep) == \E i \in 1..Len(s) : s[i] = sep

\* s.split(sep)
RECURSIVE Split(_, _)
Split(s, sep) ==
    IF ~Contains(s, sep) THEN <<s>>
    ELSE LET i == CHOOSE k \in 1..Len(s) :
                      s[k] = sep /\ \A j \in 1..(k - 1) : s[j] # sep
         IN  <<SubSeq(s, 1, i - 1)>> \o Split(SubSeq(s, i + 1, Len(s)), sep)

-----------------------------------------------------------------------------
(* urllib.parse.quote(filename): unreserved characters and "/" are kept,   *)
(* every other character becomes the %XX of its UTF-8 bytes                *)

Letters == {"a", "b", "c", "d", "e", "f", "g", "h", "i", "j", "k", "l", "m",
            "n", "o", "p", "q", "r", "s", "t", "u", "v", "w", "x", "y", "z",
            "N", "T", "F"}
Digits  == {"0", "1", "2", "3", "4", "5", "6", "7", "8", "9"}

\* the %XX of the UTF-8 bytes of a character
PercentEncoded(c) ==
    CASE c = " " -> <<"%", "2", "0">>
      [] c = "#" -> <<"%", "2", "3">>
      [] c = "'" -> <<"%", "2", "7">>
      [] c = "%" -> <<"%", "2", "5">>
      [] c = ":" -> <<"%", "3", "A">>
      [] c = "é" -> <<"%", "C", "3", "%", "A", "9">>
      [] OTHER   -> <<"%", "?", "?">>

RECURSIVE QuoteWith(_, _)
QuoteWith(s, safe) ==
    IF s = <<>> THEN <<>>
    ELSE (IF Head(s) \in Letters \cup Digits \cup {"_", ".", "-", "~"} \cup safe
          THEN <<Head(s)>> ELSE PercentEncoded(Head(s)))
         \o QuoteWith(Tail(s), safe)

\* urllib.parse.quote(filename), safe = "/"
Quote(s) == QuoteWith(s, {"/"})

\* the Location header RedirectResponse sets: quote(url, safe=":/%#?=@[]!$&'()*+,;")
RedirectSafe == {":", "/", "%", "#", "?", "=", "@", "[", "]", "!", "$", "&",
                 "'", "(", ")", "*", "+", ",", ";"}
LocationOf(url) == QuoteWith(url, RedirectSafe)

-----------------------------------------------------------------------------
(* Record store: identifiers and find_one                                  *)

OidLen == 24
HexDigits == {"0", "1", "2", "3", "4", "5", "6", "7", "8", "9",
              "a", "b", "c", "d", "e", "f"}

\* ObjectId(word_id) succeeds; otherwise it raises bson.errors.InvalidId
ObjectIdValid(word_id) ==
    Len(word_id) = OidLen /\ \A i \in 1..Len(word_id) : word_id[i] \in HexDigits

ObjectId(word_id) == [t |-> "oid", s |-> word_id, b |-> FALSE]

NoDoc == <<>>

\* collection.find_one({key: value}): a matching document, or None
FindOne(collection, key, value) ==
    IF \E d \in collection : key \in DOMAIN d /\ d[key] = value
    THEN CHOOSE d \in collection : key \in DOMAIN d /\ d[key] = value
    ELSE NoDoc

\* the inner try/except: by _id, and by the string field id only when
\* ObjectId(word_id) raised
FindWord(collection, word_id) ==
    IF ObjectIdValid(word_id)
    THEN FindOne(collection, "_id", ObjectId(word_id))
    ELSE FindOne(collection, "id", Str(word_id))

-----------------------------------------------------------------------------
(* Exceptions and responses                                                *)

NoException == [kind |-> "none", status |-> 0, detail |-> ""]
HTTPException(status, detail) ==
    [kind |-> "HTTPException", status |-> status, detail |-> detail]

DetailLang    == "Langue doit etre 'shimaore' ou 'kibouchi'"
DetailUnknown == "Mot non trouve avec id"
DetailNoDual  == "Ce mot n'utilise pas le systeme audio dual"
DetailNoAudio == "Pas d'audio disponible pour ce mot"
DetailBadId   == "ID de mot invalide"
DetailStr     == "str(e)"

\* what the caller receives when the exception exc leaves the handler
Raised(exc, cause) ==
    [status |-> exc.status, detail |-> exc.detail, location |-> <<>>, cause |-> cause]

RedirectResponse(url, status_code) ==
    [status |-> status_code, detail |-> "", location |-> LocationOf(url),
     cause |-> NoException]

\* the except clauses closing the handler's try block: an HTTPException
\* raised inside the block is an Exception and not a ValueError
ExceptClauses(exc) ==
    IF exc.kind = "ValueError"
    THEN Raised(HTTPException(400, DetailBadId), exc)
    ELSE Raised(HTTPException(500, DetailStr), exc)

\* "https://pub-57ccc97df699405084a85ab3bb4ef546.r2.dev"
R2_PUBLIC_URL ==
    <<"h", "t", "t", "p", "s", ":", "/", "/", "p", "u", "b", "-", "5",
      "7", "c", "c", "c", "9", "7", "d", "f", "6", "9", "9", "4", "0",
      "5", "0", "8", "4", "a", "8", "5", "a", "b", "3", "b", "b", "4",
      "e", "f", "5", "4", "6", ".", "r", "2", ".", "d", "e", "v">>
DefaultCategory == Str(<<"f", "a", "m", "i", "l", "l", "e">>)

-----------------------------------------------------------------------------
(* get_word_audio_by_language                                              *)

Langs == {"shimaore", "kibouchi"}

\* variant: a legacy-dual filename counts only when its has-audio flag is true
AudioPath_FlagGated(word_doc, lang) ==
    IF lang = "shimaore"
    THEN Or(Or(Get(word_doc, "audio_shimaore"),
               IF Truthy(Get(word_doc, "shimoare_has_audio"))
               THEN Get(word_doc, "shimoare_audio_filename") ELSE None),
            Get(word_doc, "audio_filename_shimaore"))
    ELSE Or(Or(Get(word_doc, "audio_kibouchi"),
               IF Truthy(Get(word_doc, "kibouchi_has_audio"))
               THEN Get(word_doc, "kibouchi_audio_filename") ELSE None),
            Get(word_doc, "audio_filename_kibouchi"))

\* variant: the kibouchi branch ends its chain with the shimaore path
AudioPath_CrossLanguage(word_doc, lang) ==
    IF lang = "shimaore"
    THEN Or(Or(Get(word_doc, "audio_shimaore"),
               Get(word_doc, "shimoare_audio_filename")),
            Get(word_doc, "audio_filename_shimaore"))
    ELSE Or(Or(Or(Get(word_doc, "audio_kibouchi"),
                  Get(word_doc, "kibouchi_audio_filename")),
               Get(word_doc, "audio_filename_kibouchi")),
            Get(word_doc, "audio_shimaore"))

\* variant: the legacy filename is tried before the current path
AudioPath_LegacyFirst(word_doc, lang) ==
    IF lang = "shimaore"
    THEN Or(Or(Get(word_doc, "shimoare_audio_filename"),
               Get(word_doc, "audio_shimaore")),
            Get(word_doc, "audio_filename_shimaore"))
    ELSE Or(Or(Get(word_doc, "kibouchi_audio_filename"),
               Get(word_doc, "audio_kibouchi")),
            Get(word_doc, "audio_filename_kibouchi"))

\* the filename or path declared for lang, first truthy field of the chain
AudioPath(word_doc, lang) ==
    IF lang = "shimaore"
    THEN Or(Or(Get(word_doc, "audio_shimaore"),
               Get(word_doc, "shimoare_audio_filename")),
            Get(word_doc, "audio_filename_shimaore"))
    ELSE Or(Or(Get(word_doc, "audio_kibouchi"),
               Get(word_doc, "kibouchi_audio_filename")),
            Get(word_doc, "audio_filename_kibouchi"))

\* has_audio: assigned and never read afterwards
HasAudio(word_doc, lang, audio_path) ==
    IF lang = "shimaore"
    THEN Or(GetDefault(word_doc, "shimoare_has_audio", Bool(FALSE)),
            Bool(Truthy(audio_path)))
    ELSE Or(GetDefault(word_doc, "kibouchi_has_audio", Bool(FALSE)),
            Bool(Truthy(audio_path)))

\* parts = audio_path.split("/"); parts[0]; parts[1]
AudioCategory(audio_path) ==
    IF Contains(audio_path.s, "/")
    THEN Str(Split(audio_path.s, "/")[1])
    ELSE None

Filename(audio_path) ==
    IF Contains(audio_path.s, "/")
    THEN Str(Split(audio_path.s, "/")[2])
    ELSE audio_path

\* audio_category or section or category, with "famille" for a missing key
WordCategory(word_doc, audio_category) ==
    Or(Or(audio_category, Get(word_doc, "section")),
       GetDefault(word_doc, "category", DefaultCategory))

\* the URL on R2
AudioUrl(word_doc, audio_path) ==
    IF Contains(audio_path.s, "/")
    THEN R2_PUBLIC_URL \o <<"/">> \o audio_path.s
    ELSE R2_PUBLIC_URL \o <<"/">>
           \o Format(WordCategory(word_doc, AudioCategory(audio_path)))
           \o <<"/">> \o Quote(Filename(audio_path).s)

Unbound == Absent
NoFrame ==
    [word_doc |-> NoDoc, audio_path |-> Unbound, has_audio |-> Unbound,
     audio_category |-> Unbound, filename |-> Unbound, word_category |-> Unbound,
     audio_url |-> <<>>]

\* the try block of the handler, lines 1070-1143: the response and the
\* locals it left with
ResolveAudio(collection, word_id, lang) ==
    LET word_doc   == FindWord(collection, word_id)
        audio_path == AudioPath(word_doc, lang)
        has_audio  == HasAudio(word_doc, lang, audio_path)
        audio_category == AudioCategory(audio_path)
        filename   == Filename(audio_path)
    IN  IF DOMAIN word_doc = {}
        THEN [response |-> ExceptClauses(HTTPException(404, DetailUnknown)),
              frame    |-> NoFrame]
        ELSE IF ~Truthy(GetDefault(word_doc, "dual_audio_system", Bool(FALSE)))
        THEN [response |-> ExceptClauses(HTTPException(400, DetailNoDual)),
              frame    |-> [NoFrame EXCEPT !.word_doc = word_doc]]
        ELSE IF ~Truthy(audio_path)
        THEN [response |-> ExceptClauses(HTTPException(404, DetailNoAudio)),
              frame    |-> [NoFrame EXCEPT !.word_doc = word_doc,
                                           !.audio_path = audio_path,
                                           !.has_audio = has_audio]]
        ELSE [response |-> RedirectResponse(AudioUrl(word_doc, audio_path), 307),
              frame    |-> [word_doc |-> word_doc,
                            audio_path |-> audio_path,
                            has_audio |-> has_audio,
                            audio_category |-> audio_category,
                            filename |-> filename,
                            word_category |->
                                IF Contains(audio_path.s, "/") THEN Unbound
                                ELSE WordCategory(word_doc, audio_category),
                            audio_url |-> AudioUrl(word_doc, audio_path)]]

\* variant: the language is validated after the entry has been looked up
get_word_audio_by_language_LateCheck(collection, word_id, lang) ==
    IF DOMAIN FindWord(collection, word_id) # {} /\ lang \notin Langs
    THEN [response |-> Raised(HTTPException(400, DetailLang), NoException),
          frame    |-> [NoFrame EXCEPT !.word_doc = FindWord(collection, word_id)]]
    ELSE ResolveAudio(collection, word_id, lang)

\* the whole handler: the language is validated before the try block
get_word_audio_by_language(collection, word_id, lang) ==
    IF lang \notin Langs
    THEN [response |-> Raised(HTTPException(400, DetailLang), NoException),
          frame    |-> NoFrame]
    ELSE ResolveAudio(collection, word_id, lang)

-----------------------------------------------------------------------------
(* The vocabulary entries the store may hold, and the requests             *)

OidA == [i \in 1..OidLen |-> "a"]      \* the _id of the first entry
OidB == [i \in 1..OidLen |-> "b"]      \* well-formed; the id of the second entry
OidC == [i \in 1..OidLen |-> "c"]      \* the _id of the second entry
ExtW == <<"w", "-", "1">>              \* the id of the first entry
ExtZ == <<"z", "-", "9">>              \* an identifier nothing carries

WordIds == {OidA, OidB, ExtW, ExtZ}
LangTags == {"shimaore", "kibouchi", "french"}

DualVals     == {Absent, Bool(FALSE), Bool(TRUE)}
SectionVals  == {Absent, Str(<<"s">>)}
CategoryVals == {Absent, None, Str(<<>>), Str(<<"c">>)}
FlagVals     == {Absent, Bool(FALSE), Bool(TRUE)}

ShimaoreCurrentVals == {Absent, Str(<<>>), Str(<<"n", "/", "m", "'", "a", " ", "é">>),
                        Str(<<"n", "/", "d", "/", "e">>)}
ShimaoreLegacyVals  == {Absent, Str(<<>>), Str(<<"l", "#">>)}
ShimaoreMidVals     == {Absent, Str(<<"m", " ", "b">>)}
KibouchiCurrentVals == {Absent, Str(<<"k", "/", "f">>)}
KibouchiLegacyVals  == {Absent, Str(<<"k", "l">>)}

WordKeys == {"_id", "id", "dual_audio_system", "section", "category",
             "audio_shimaore", "shimoare_audio_filename",
             "audio_filename_shimaore", "shimoare_has_audio",
             "audio_kibouchi", "kibouchi_audio_filename",
             "audio_filename_kibouchi", "kibouchi_has_audio"}

\* a document holds exactly the keys that were given a value
Document(all) == [k \in {x \in DOMAIN all : all[x] # Absent} |-> all[k]]

WordDocs ==
    { Document([k \in WordKeys |->
        CASE k = "_id"                     -> ObjectId(OidA)
          [] k = "id"                      -> Str(ExtW)
          [] k = "dual_audio_system"       -> dual
          [] k = "section"                 -> section
          [] k = "category"                -> category
          [] k = "audio_shimaore"          -> sh[1]
          [] k = "shimoare_audio_filename" -> sh[2]
          [] k = "audio_filename_shimaore" -> sh[3]
          [] k = "shimoare_has_audio"      -> sh[4]
          [] k = "audio_kibouchi"          -> ki[1]
          [] k = "kibouchi_audio_filename" -> ki[2]
          [] OTHER                         -> Absent]) :
        dual \in DualVals, section \in SectionVals,
        category \in CategoryVals,
        sh \in ShimaoreCurrentVals \X ShimaoreLegacyVals \X ShimaoreMidVals \X FlagVals,
        ki \in KibouchiCurrentVals \X KibouchiLegacyVals }

\* a second entry, whose external identifier has the shape of a native one
OtherDoc ==
    Document([k \in WordKeys |->
        CASE k = "_id"               -> ObjectId(OidC)
          [] k = "id"                -> Str(OidB)
          [] k = "dual_audio_system" -> Bool(TRUE)
          [] k = "category"          -> Str(<<"c">>)
          [] k = "audio_shimaore"    -> Str(<<"n", "/", "b">>)
          [] k = "audio_kibouchi"    -> Str(<<"n", "/", "k">>)
          [] OTHER                   -> Absent])

\* the practice sentences the store may hold: french, difficulty, tense
MaxPool == 3
MaxLimit == 3
\* the count of shuffles of one request is kept up to this value
MaxShuffles == 8
Limits == (0 - 1)..MaxLimit

SentenceKinds ==
    { <<Str(<<"a", " ", "b">>), IntVal(1), Str(<<"p", "r">>)>>,
      <<Str(<<"a", " ", "c">>), IntVal(2), Str(<<"p", "a">>)>>,
      <<Str(<<"b">>),           IntVal(1), Str(<<"p", "a">>)>>,
      <<Str(<<" ">>),           IntVal(2), Str(<<"p", "r">>)>> }

Digit == <<"1", "2", "3", "4", "5", "6", "7", "8", "9">>

Sentence(i, kind) ==
    Document([k \in {"_id", "french", "difficulty", "tense"} |->
        CASE k = "_id"        -> ObjectId(<<Digit[i]>>)
          [] k = "french"     -> kind[1]
          [] k = "difficulty" -> kind[2]
          [] OTHER            -> kind[3]])

Pools ==
    UNION { { [i \in 1..n |-> Sentence(i, kinds[i])] :
                kinds \in [1..n -> SentenceKinds] } : n \in 0..MaxPool }

DifficultyParams == {None, IntVal(0), IntVal(1)}
TenseParams      == {None, Str(<<>>), Str(<<"p", "a">>)}

\* the difficulty and tense of a request: no filter (both absent, or 0 and
\* empty) and every combination that holds a filter
FilterParams ==
    { f \in DifficultyParams \X TenseParams :
        \/ Truthy(f[1]) \/ Truthy(f[2])
        \/ f = <<None, None>>
        \/ f = <<IntVal(0), Str(<<>>)>> }

NoSentencesRequest  == [difficulty |-> None, tense |-> None, limit |-> 0]
NoSentencesResponse == [status |-> 0, body |-> <<>>]

NoRequest  == [word_id |-> <<>>, lang |-> ""]
NoResponse == [status |-> 0, detail |-> "", location |-> <<>>, cause |-> NoException]

NoWordsRequest  ==
    [path |-> <<>>, category |-> None, search |-> None, limit |-> None, skip |-> None]
NoWordsResponse == [status |-> 0, body |-> <<>>]

ListingIdle ==
    /\ words_request = NoWordsRequest
    /\ words_response = NoWordsResponse

NoWordRequest  == [method |-> "", word_id |-> <<>>, word |-> NoDoc]
NoWordResponse == [status |-> 0, detail |-> "", cause |-> NoException, body |-> NoDoc]
NoWordFrame    == [matched |-> Unbound]

WordIdle ==
    /\ word_request = NoWordRequest
    /\ word_response = NoWordResponse
    /\ word_frame = NoWordFrame

\* the two requests the server may hold at a time
Calls == {1, 2}

\* overlapped: another request was waiting in the server while this one ran
NoCall == [pc |-> "idle", user_name |-> "", badge_id |-> "",
           user_badges |-> NoDoc, message |-> "", overlapped |-> FALSE]

BadgesIdle ==
    /\ user_badges = <<>>
    /\ calls = [c \in Calls |-> NoCall]

AudioIdle ==
    /\ request = NoRequest
    /\ response = NoResponse
    /\ frame = NoFrame

SentencesIdle ==
    /\ sentences_request = NoSentencesRequest
    /\ pc = "idle"
    /\ all_sentences = <<>>
    /\ sentences = <<>>
    /\ unique_verbs = 0
    /\ attempts = 0
    /\ shuffles = 0
    /\ sentences_response = NoSentencesResponse

\* the audio service over every vocabulary entry, no sentence stored
Init ==
    /\ words_collection \in { {d, OtherDoc} : d \in WordDocs }
    /\ sentences_collection = <<>>
    /\ AudioIdle
    /\ SentencesIdle
    /\ ListingIdle
    /\ WordIdle
    /\ BadgesIdle

\* GET /api/words/{word_id}/audio/{lang}
GetWordAudio ==
    /\ request = NoRequest
    /\ \E word_id \in WordIds, lang \in LangTags :
        LET r == get_word_audio_by_language(words_collection, word_id, lang)
        IN  /\ request' = [word_id |-> word_id, lang |-> lang]
            /\ response' = r.response
            /\ frame' = r.frame
            /\ UNCHANGED words_collection
            /\ UNCHANGED <<sentenceVars, listingVars, wordVars, badgeVars>>

\* the response has been sent and the handler's locals are dropped
EndOfAudioRequest ==
    /\ request # NoRequest
    /\ request' = NoRequest
    /\ response' = NoResponse
    /\ frame' = NoFrame
    /\ UNCHANGED words_collection
    /\ UNCHANGED <<sentenceVars, listingVars, wordVars, badgeVars>>

Next == GetWordAudio \/ EndOfAudioRequest

vars == <<audioVars, sentenceVars, listingVars, wordVars, badgeVars>>

Spec == Init /\ [][Next]_vars

-----------------------------------------------------------------------------
(* Vocabulary of the properties                                            *)

CurrentKey(lang) == IF lang = "shimaore" THEN "audio_shimaore" ELSE "audio_kibouchi"
MidKey(lang) ==
    IF lang = "shimaore" THEN "audio_filename_shimaore" ELSE "audio_filename_kibouchi"
LegacyKey(lang) ==
    IF lang = "shimaore" THEN "shimoare_audio_filename" ELSE "kibouchi_audio_filename"
FlagKey(lang) == IF lang = "shimaore" THEN "shimoare_has_audio" ELSE "kibouchi_has_audio"

\* present and non-empty
Declared(doc, key) == key \in DOMAIN doc /\ doc[key].t = "str" /\ doc[key].s # <<>>

\* the entries an identifier designates, as a native or as an external one
Designated(collection, word_id) ==
    { d \in collection :
        \/ "_id" \in DOMAIN d /\ d["_id"].t = "oid" /\ d["_id"].s = word_id
        \/ "id" \in DOMAIN d /\ d["id"].t = "str" /\ d["id"].s = word_id }

FirstSlash(s) == CHOOSE i \in 1..Len(s) : s[i] = "/" /\ \A j \in 1..(i - 1) : s[j] # "/"
BeforeFirstSlash(s) == SubSeq(s, 1, FirstSlash(s) - 1)
AfterFirstSlash(s)  == SubSeq(s, FirstSlash(s) + 1, Len(s))

Outcome(resp) ==
    CASE resp.status = 307                                   -> "redirect"
      [] resp.status = 400 /\ resp.detail = DetailLang       -> "invalid-variant"
      [] resp.status = 404 /\ resp.detail = DetailUnknown    -> "unknown-entry"
      [] resp.status = 400 /\ resp.detail = DetailNoDual     -> "no-dual-system"
      [] resp.status = 404 /\ resp.detail = DetailNoAudio    -> "not-found"
      [] resp.status = 0                                     -> "none"
      [] OTHER                                               -> "server-error"

\* the request reached the per-language lookup: valid variant, entry found,
\* dual-audio flag true
Resolving ==
    /\ request.lang \in Langs
    /\ DOMAIN frame.word_doc # {}
    /\ frame.audio_path # Unbound

-----------------------------------------------------------------------------
(* Properties of get_word_audio_by_language                                *)

\* C1 (as stated): the audio value is the first declared one in the order
\* current path, mid-generation filename, legacy-dual filename; with a
\* mid-generation and a legacy-dual filename and no current path, the
\* mid-generation one is used.
C1_CurrentMidLegacy ==
    Resolving =>
        LET d == frame.word_doc
            l == request.lang
        IN  /\ Declared(d, CurrentKey(l)) => frame.audio_path = d[CurrentKey(l)]
            /\ ~Declared(d, CurrentKey(l)) /\ Declared(d, MidKey(l))
                   => frame.audio_path = d[MidKey(l)]
            /\ ~Declared(d, CurrentKey(l)) /\ ~Declared(d, MidKey(l))
                   /\ Declared(d, LegacyKey(l))
                   => frame.audio_path = d[LegacyKey(l)]

\* the only audio declaration for the requested variant is a legacy-dual
\* filename, and the has-audio flag is false or absent
LegacyOnlyUnflagged ==
    /\ Resolving
    /\ LET d == frame.word_doc
           l == request.lang
       IN  /\ ~Declared(d, CurrentKey(l))
           /\ ~Declared(d, MidKey(l))
           /\ Declared(d, LegacyKey(l))
           /\ ~Truthy(Get(d, FlagKey(l)))

C3_FiveOutcomes ==
    request # NoRequest =>
        Outcome(response) \in {"redirect", "invalid-variant", "unknown-entry",
                               "no-dual-system", "not-found"}

C5_NoDualSystem ==
    (/\ request.lang \in Langs
     /\ DOMAIN FindWord(words_collection, request.word_id) # {}
     /\ "dual_audio_system" \notin DOMAIN FindWord(words_collection, request.word_id))
        => Outcome(response) = "no-dual-system"

\* C6 (as stated): an entry is declared unknown only when the identifier
\* designates no entry, neither as a native _id nor as the string field id.
C6_UnknownAfterBothForms ==
    response.cause.detail = DetailUnknown
        => Designated(words_collection, request.word_id) = {}

\* C7 (as stated): every redirect target is
\* baseLocation / category / percentEncode(filename), also for a current-shape
\* path value.
C7_TargetEncoded ==
    response.status = 307 =>
        LET path == frame.audio_path.s
            category == IF Contains(path, "/") THEN BeforeFirstSlash(path)
                        ELSE Format(frame.word_category)
            name     == IF Contains(path, "/") THEN AfterFirstSlash(path) ELSE path
        IN  response.location =
                R2_PUBLIC_URL \o <<"/">> \o category \o <<"/">> \o Quote(name)

\* C8 (as stated): for a value without an embedded category the category of
\* the target is the entry's section, else its category, else "famille",
\* and is never empty or null.
C8_CategoryFallback ==
    (response.status = 307 /\ ~Contains(frame.audio_path.s, "/")) =>
        LET d == frame.word_doc
        IN  /\ frame.word_category =
                   (IF Declared(d, "section") THEN d["section"]
                    ELSE IF Declared(d, "category") THEN d["category"]
                    ELSE DefaultCategory)
            /\ frame.word_category.t = "str"
            /\ frame.word_category.s # <<>>

\* C9: a redirect is issued only for a found entry whose dual-audio flag is
\* true and which declares a non-empty audio value for the requested variant
\* in one of its own fields; the target is built from that value and the
\* entry's section, category or the default only.
C9_RedirectOnlyWithAudio ==
    response.status = 307 =>
        /\ request.lang \in Langs
        /\ response.location = LocationOf(frame.audio_url)
        /\ frame.word_doc \in words_collection
        /\ frame.word_doc \in Designated(words_collection, request.word_id)
        /\ Get(frame.word_doc, "dual_audio_system") = Bool(TRUE)
        /\ \E k \in {CurrentKey(request.lang), MidKey(request.lang),
                     LegacyKey(request.lang)} :
             /\ Declared(frame.word_doc, k)
             /\ LET v == frame.word_doc[k].s
                IN  \/ frame.audio_url = R2_PUBLIC_URL \o <<"/">> \o v
                    \/ \E c \in {Get(frame.word_doc, "section"),
                                 Get(frame.word_doc, "category"), DefaultCategory} :
                         frame.audio_url =
                             R2_PUBLIC_URL \o <<"/">> \o Format(c) \o <<"/">> \o Quote(v)

C9_Witness ==
    /\ response.status = 307
    /\ request.lang = "kibouchi"
    /\ Declared(frame.word_doc, "audio_shimaore")
    /\ frame.audio_path = Str(<<"k", "l">>)

-----------------------------------------------------------------------------
(* get_sentences                                                           *)

RetryLimit == 5

Min(a, b) == IF a <= b THEN a ELSE b
Max(a, b) == IF a >= b THEN a ELSE b

Whitespace == {" "}

\* s.split(): the maximal runs of non-whitespace characters
RECURSIVE Words(_)
Words(s) ==
    IF s = <<>> THEN <<>>
    ELSE IF Head(s) \in Whitespace THEN Words(Tail(s))
    ELSE LET n == CHOOSE k \in 1..Len(s) :
                      /\ \A j \in 1..k : s[j] \notin Whitespace
                      /\ k = Len(s) \/ s[k + 1] \in Whitespace
         IN  <<SubSeq(s, 1, n)>> \o Words(SubSeq(s, n + 1, Len(s)))

\* s.get('french', '').split()[0]: raises IndexError when there is no token
LeadRaises(s) == Words(GetDefault(s, "french", Str(<<>>)).s) = <<>>
LeadWord(s)   == Words(GetDefault(s, "french", Str(<<>>)).s)[1]

\* the list comprehension building french_words raises
FrenchWordsRaise(selection) ==
    \E i \in 1..Len(selection) : LeadRaises(selection[i])

\* len(set(french_words))
UniqueVerbs(selection) ==
    Cardinality({ LeadWord(selection[i]) : i \in 1..Len(selection) })

\* list[:limit]
Prefix(list, limit) ==
    IF limit >= 0
    THEN SubSeq(list, 1, Min(limit, Len(list)))
    ELSE SubSeq(list, 1, Max(Len(list) + limit, 0))

\* variant: the list is drawn with replacement, as random.choices does
Shuffled_WithRepeats(list) ==
    { [i \in 1..Len(list) |-> list[p[i]]] :
        p \in [1..Len(list) -> 1..Len(list)] }

\* the orders random.shuffle(list) can leave the list in
Shuffled(list) ==
    { [i \in 1..Len(list) |-> list[p[i]]] :
        p \in { q \in [1..Len(list) -> 1..Len(list)] :
                  \A i, j \in 1..Len(list) : q[i] = q[j] => i = j } }

\* variant: the first attempt is counted in the budget of 5
LoopCondition_CountsFirst ==
    2 * unique_verbs < sentences_request.limit /\ attempts + 1 < RetryLimit

\* unique_verbs < limit * 0.5 and attempts < 5
LoopCondition == 2 * unique_verbs < sentences_request.limit /\ attempts < RetryLimit

\* variant: the loop body forgets to count the attempt
NextAttempts_Forgotten(a) == a

\* attempts += 1
NextAttempts(a) == a + 1

\* variant: the difficulty is a filter whenever it is not None
FilterMatches_ZeroIsAFilter(s, difficulty, tense) ==
    /\ difficulty.t = "int" => Get(s, "difficulty") = difficulty
    /\ Truthy(tense) => Get(s, "tense") = tense

\* filter_query built from the filters that were supplied
FilterMatches(s, difficulty, tense) ==
    /\ Truthy(difficulty) => Get(s, "difficulty") = difficulty
    /\ Truthy(tense) => Get(s, "tense") = tense

RECURSIVE Find(_, _, _)
Find(collection, difficulty, tense) ==
    IF collection = <<>> THEN <<>>
    ELSE (IF FilterMatches(Head(collection), difficulty, tense)
          THEN <<Head(collection)>> ELSE <<>>)
         \o Find(Tail(collection), difficulty, tense)

\* sentence["_id"] = str(sentence["_id"]) for every selected sentence
Converted(selection) ==
    [i \in 1..Len(selection) |->
        [k \in DOMAIN selection[i] |->
            IF k = "_id" THEN Str(selection[i][k].s) ELSE selection[i][k]]]

SentencesError == [status |-> 500, body |-> <<>>]

\* lines 296-317 without a filter: load, shuffle, select, count the verbs
LoadUnfiltered ==
    /\ pc = "idle"
    /\ \E filters \in FilterParams, limit \in Limits :
       LET difficulty == filters[1]
           tense == filters[2]
       IN
       \E shuffled \in Shuffled(sentences_collection) :
        /\ ~Truthy(difficulty) /\ ~Truthy(tense)
        /\ sentences_request' =
               [difficulty |-> difficulty, tense |-> tense, limit |-> limit]
        /\ all_sentences' = shuffled
        /\ sentences' = Prefix(shuffled, limit)
        /\ shuffles' = 1
        /\ attempts' = 0
        /\ IF FrenchWordsRaise(Prefix(shuffled, limit))
           THEN /\ unique_verbs' = 0
                /\ pc' = "done"
                /\ sentences_response' = SentencesError
           ELSE /\ unique_verbs' = UniqueVerbs(Prefix(shuffled, limit))
                /\ pc' = "while"
                /\ sentences_response' = NoSentencesResponse
        /\ UNCHANGED <<sentences_collection, audioVars, listingVars, wordVars, badgeVars>>

\* variant: the filtered pool goes through the diversity check and the loop
LoadFiltered_Sampled ==
    /\ pc = "idle"
    /\ \E filters \in FilterParams, limit \in Limits :
       LET difficulty == filters[1]
           tense == filters[2]
       IN
       \E shuffled \in Shuffled(Find(sentences_collection, difficulty, tense)) :
        /\ Truthy(difficulty) \/ Truthy(tense)
        /\ sentences_request' =
               [difficulty |-> difficulty, tense |-> tense, limit |-> limit]
        /\ all_sentences' = shuffled
        /\ sentences' = Prefix(shuffled, limit)
        /\ shuffles' = 1
        /\ attempts' = 0
        /\ IF FrenchWordsRaise(Prefix(shuffled, limit))
           THEN /\ unique_verbs' = 0
                /\ pc' = "done"
                /\ sentences_response' = SentencesError
           ELSE /\ unique_verbs' = UniqueVerbs(Prefix(shuffled, limit))
                /\ pc' = "while"
                /\ sentences_response' = NoSentencesResponse
        /\ UNCHANGED <<sentences_collection, audioVars, listingVars, wordVars, badgeVars>>

\* lines 324-335: the filtered branch
LoadFiltered ==
    /\ pc = "idle"
    /\ \E filters \in FilterParams, limit \in Limits :
       LET difficulty == filters[1]
           tense == filters[2]
       IN
       \E shuffled \in Shuffled(Find(sentences_collection, difficulty, tense)) :
        /\ Truthy(difficulty) \/ Truthy(tense)
        /\ sentences_request' =
               [difficulty |-> difficulty, tense |-> tense, limit |-> limit]
        /\ all_sentences' = shuffled
        /\ sentences' = Prefix(shuffled, limit)
        /\ shuffles' = 1
        /\ attempts' = 0
        /\ unique_verbs' = 0
        /\ pc' = "convert"
        /\ sentences_response' = NoSentencesResponse
        /\ UNCHANGED <<sentences_collection, audioVars, listingVars, wordVars, badgeVars>>

\* variant: the loop body reshuffles and recounts but leaves sentences alone
Reshuffle_KeepsSelection ==
    /\ pc = "while"
    /\ LoopCondition
    /\ \E shuffled \in Shuffled(all_sentences) :
        /\ all_sentences' = shuffled
        /\ sentences' = sentences
        /\ shuffles' = Min(shuffles + 1, MaxShuffles)
        /\ IF FrenchWordsRaise(Prefix(shuffled, sentences_request.limit))
           THEN /\ unique_verbs' = unique_verbs
                /\ attempts' = attempts
                /\ pc' = "done"
                /\ sentences_response' = SentencesError
           ELSE /\ unique_verbs' = UniqueVerbs(Prefix(shuffled, sentences_request.limit))
                /\ attempts' = NextAttempts(attempts)
                /\ pc' = "while"
                /\ UNCHANGED sentences_response
        /\ UNCHANGED <<sentences_collection, sentences_request, audioVars, listingVars, wordVars, badgeVars>>

\* one iteration of the while loop, lines 318-323
Reshuffle ==
    /\ pc = "while"
    /\ LoopCondition
    /\ \E shuffled \in Shuffled(all_sentences) :
        /\ all_sentences' = shuffled
        /\ sentences' = Prefix(shuffled, sentences_request.limit)
        /\ shuffles' = Min(shuffles + 1, MaxShuffles)
        /\ IF FrenchWordsRaise(Prefix(shuffled, sentences_request.limit))
           THEN /\ unique_verbs' = unique_verbs
                /\ attempts' = attempts
                /\ pc' = "done"
                /\ sentences_response' = SentencesError
           ELSE /\ unique_verbs' = UniqueVerbs(Prefix(shuffled, sentences_request.limit))
                /\ attempts' = NextAttempts(attempts)
                /\ pc' = "while"
                /\ UNCHANGED sentences_response
        /\ UNCHANGED <<sentences_collection, sentences_request, audioVars, listingVars, wordVars, badgeVars>>

\* variant: the documents of the list are the store's own, so that the
\* conversion of their _id shows in the collection
ReturnSentences_InStore ==
    /\ \/ pc = "while" /\ ~LoopCondition
       \/ pc = "convert"
    /\ pc' = "done"
    /\ sentences' = Converted(sentences)
    /\ all_sentences' = Converted(sentences)
           \o SubSeq(all_sentences, Len(sentences) + 1, Len(all_sentences))
    /\ sentences_response' = [status |-> 200, body |-> Converted(sentences)]
    /\ sentences_collection' =
           [i \in 1..Len(sentences_collection) |->
               IF \E j \in 1..Len(sentences) : sentences[j] = sentences_collection[i]
               THEN Converted(<<sentences_collection[i]>>)[1]
               ELSE sentences_collection[i]]
    /\ UNCHANGED <<sentences_request,
                   unique_verbs, attempts, shuffles, audioVars, listingVars, wordVars, badgeVars>>

\* lines 337-341: the loop is left, the _id of the selected documents are
\* converted (the same objects all_sentences holds), the list is returned
ReturnSentences ==
    /\ \/ pc = "while" /\ ~LoopCondition
       \/ pc = "convert"
    /\ pc' = "done"
    /\ sentences' = Converted(sentences)
    /\ all_sentences' = Converted(sentences)
           \o SubSeq(all_sentences, Len(sentences) + 1, Len(all_sentences))
    /\ sentences_response' = [status |-> 200, body |-> Converted(sentences)]
    /\ UNCHANGED <<sentences_collection, sentences_request,
                   unique_verbs, attempts, shuffles, audioVars, listingVars, wordVars, badgeVars>>

\* the response has been sent and the handler's locals are dropped
EndOfSentencesRequest ==
    /\ pc = "done"
    /\ pc' = "idle"
    /\ sentences_request' = NoSentencesRequest
    /\ all_sentences' = <<>>
    /\ sentences' = <<>>
    /\ unique_verbs' = 0
    /\ attempts' = 0
    /\ shuffles' = 0
    /\ sentences_response' = NoSentencesResponse
    /\ UNCHANGED <<sentences_collection, audioVars, listingVars, wordVars, badgeVars>>

SentencesInit ==
    /\ words_collection = {OtherDoc}
    /\ sentences_collection \in Pools
    /\ AudioIdle
    /\ SentencesIdle
    /\ ListingIdle
    /\ WordIdle
    /\ BadgesIdle

SentencesNext ==
    LoadUnfiltered \/ LoadFiltered \/ Reshuffle \/ ReturnSentences \/ EndOfSentencesRequest

SentencesSpec == SentencesInit /\ [][SentencesNext]_vars

\* the pools the termination of a request is followed on: records that
\* share their lead token (a limit of 3 or more is never satisfied, a limit
\* of 2 or less is) and blank records (the selection raises)
LiveKinds ==
    { kind \in SentenceKinds :
        kind[1] \in {Str(<<"a", " ", "b">>), Str(<<" ">>)} }

LivePools ==
    UNION { { [i \in 1..n |-> Sentence(i, kinds[i])] :
                kinds \in [1..n -> LiveKinds] } : n \in 0..MaxPool }

SentencesLiveInit ==
    /\ words_collection = {OtherDoc}
    /\ sentences_collection \in LivePools
    /\ AudioIdle
    /\ SentencesIdle
    /\ ListingIdle
    /\ WordIdle
    /\ BadgesIdle

\* a request that was started is run to its end: the handler is one
\* coroutine without an await between line 296 and line 341
SentencesLiveSpec ==
    /\ SentencesLiveInit
    /\ [][SentencesNext]_vars
    /\ WF_vars(Reshuffle)
    /\ WF_vars(ReturnSentences)

-----------------------------------------------------------------------------
(* Properties of get_sentences                                             *)

\* the request in progress took the unfiltered branch
Unfiltered ==
    /\ pc # "idle"
    /\ ~Truthy(sentences_request.difficulty)
    /\ ~Truthy(sentences_request.tense)

\* the last selection has fewer distinct lead tokens than half the limit
BelowThreshold == 2 * unique_verbs < sentences_request.limit

RatioReached ==
    /\ sentences # <<>>
    /\ 2 * unique_verbs >= Len(sentences)

\* C11: the unfiltered sampler stops at the first attempt whose selection
\* has distinct lead tokens / records of the selection >= 0.5: once such a
\* selection is computed the loop does not go on to another reshuffle.
C11_StopsAtSelectionRatio ==
    (Unfiltered /\ pc = "while" /\ RatioReached) => ~LoopCondition

\* C12: on an empty pool the unfiltered path makes no shuffle and no pass
\* through the retry loop.
C12_EmptyPoolNoShuffle ==
    (Unfiltered /\ sentences_collection = <<>>) =>
        /\ shuffles = 0
        /\ attempts = 0

\* C13: get_sentences never ends in an error outcome, whatever French text
\* the records of the pool hold.
C13_NeverFails ==
    sentences_response.status # 500

\* C17: a request with a negative limit is rejected before the store is
\* read: nothing is loaded and no record is returned.
C17_NegativeLimitRejected ==
    (pc # "idle" /\ sentences_request.limit < 0) =>
        /\ all_sentences = <<>>
        /\ sentences_response.status # 200
        /\ sentences_response.body = <<>>

\* C14: the retry loop terminates: every request that entered the handler
\* eventually returns, also on a pool that can never reach the threshold.
C14_Terminates ==
    (pc \in {"while", "convert"}) ~> (pc = "done")

C14_Witness ==
    /\ Unfiltered
    /\ pc = "done"
    /\ Len(sentences_collection) = 1
    /\ sentences_request.limit = 3
    /\ attempts = RetryLimit
    /\ sentences_response.status = 200

\* a stored record as the response carries it: its _id rendered as text
AsReturned(record) == Converted(<<record>>)[1]

\* C15: for a limit >= 0 the selection the unfiltered sampler returns has
\* exactly min(limit, |pool|) records, each of them a record of the pool,
\* and no record of the pool is returned twice.
C15_SelectionOfThePool ==
    (Unfiltered /\ sentences_response.status = 200
                /\ sentences_request.limit >= 0) =>
        LET body == sentences_response.body
            pool == sentences_collection
        IN  /\ Len(body) = Min(sentences_request.limit, Len(pool))
            /\ \E f \in [1..Len(body) -> 1..Len(pool)] :
                /\ \A i, j \in 1..Len(body) : f[i] = f[j] => i = j
                /\ \A i \in 1..Len(body) : body[i] = AsReturned(pool[f[i]])

C15_Witness ==
    /\ Unfiltered
    /\ sentences_response.status = 200
    /\ sentences_request.limit = 2
    /\ Len(sentences_collection) = 3
    /\ Len(sentences_response.body) = 2

\* C16: when the attempts are used up below the threshold, the selection
\* returned is the prefix of the last shuffle.
C16_LastAttemptReturned ==
    [][(/\ Unfiltered
        /\ pc = "while"
        /\ attempts = RetryLimit
        /\ BelowThreshold
        /\ pc' = "done")
       => sentences_response'.body =
              Converted(Prefix(all_sentences, sentences_request.limit))]_vars

C16_Witness ==
    /\ Unfiltered
    /\ sentences_response.status = 200
    /\ attempts = RetryLimit
    /\ BelowThreshold
    /\ Len(sentences_collection) = 2
    /\ Len(sentences_response.body) = 2

\* the request in progress supplied a difficulty or a tense
Filtered ==
    /\ pc # "idle"
    /\ Truthy(sentences_request.difficulty) \/ Truthy(sentences_request.tense)

\* the selection has passed the diversity check of the sampler (half as many
\* distinct lead tokens as the limit, or as its own size when it is smaller),
\* or the sampler has used up its reshuffles on it
Sampled(selection) ==
    \/ attempts = RetryLimit
    \/ /\ ~FrenchWordsRaise(selection)
       /\ 2 * UniqueVerbs(selection) >=
              Min(sentences_request.limit, Len(selection))

\* C18 (as stated): the variety sampler is applied to the pool with and
\* without a filter: whatever get_sentences returns has passed the diversity
\* check or has used up the reshuffles.
C18_SamplerOnEveryPool ==
    (pc = "done" /\ sentences_response.status = 200) =>
        Sampled(sentences_response.body)

\* C18 (amended): the variety sampler is applied when no filter is supplied;
\* a pool pre-filtered by difficulty and/or tense is shuffled once and its
\* prefix is returned, with no diversity check and no reshuffle.
C18_SamplerOnlyUnfiltered ==
    /\ (Unfiltered /\ pc = "done" /\ sentences_response.status = 200) =>
           Sampled(sentences_response.body)
    /\ Filtered =>
           /\ shuffles = 1
           /\ attempts = 0
           /\ unique_verbs = 0
           /\ sentences_response.status # 500
           /\ pc = "done" =>
                  sentences_response.body =
                      Prefix(all_sentences, sentences_request.limit)

C18_Witness ==
    /\ Filtered
    /\ pc = "done"
    /\ sentences_response.status = 200
    /\ Len(sentences_response.body) = 3
    /\ ~Sampled(sentences_response.body)

-----------------------------------------------------------------------------
(* get_words and the route table                                           *)

\* the GET routes of lines 166-290 in the order the decorators register
\* them; a path is the sequence of its segments
Routes ==
    << [path |-> <<"api", "vocabulary">>,               endpoint |-> "get_vocabulary",          line |-> 167],
       [path |-> <<"api", "vocabulary", "sections">>,   endpoint |-> "get_vocabulary_sections", line |-> 192],
       [path |-> <<"api", "vocabulary", "{word_id}">>,  endpoint |-> "get_word",                line |-> 202],
       [path |-> <<"api", "words">>,                    endpoint |-> "get_words",               line |-> 219],
       [path |-> <<"api", "audio", "{section}", "{filename}">>, endpoint |-> "get_audio",       line |-> 245],
       [path |-> <<"api", "words">>,                    endpoint |-> "get_words",               line |-> 270],
       [path |-> <<"api", "words", "{word_id}">>,       endpoint |-> "get_word",                line |-> 280],
       [path |-> <<"api", "sentences">>,                endpoint |-> "get_sentences",           line |-> 291] >>

PathParams == {"{word_id}", "{section}", "{filename}"}

\* the route's path pattern matches the request path
Matches(route, path) ==
    /\ Len(route.path) = Len(path)
    /\ \A i \in 1..Len(path) :
        \/ route.path[i] = path[i]
        \/ route.path[i] \in PathParams /\ path[i] # ""

NoRoute == [path |-> <<>>, endpoint |-> "", line |-> 0]

\* variant: a later registration of a path replaces the earlier one
Resolve_LastRegistered(path) ==
    IF \E i \in 1..Len(Routes) : Matches(Routes[i], path)
    THEN Routes[CHOOSE i \in 1..Len(Routes) :
                    /\ Matches(Routes[i], path)
                    /\ \A j \in (i + 1)..Len(Routes) : ~Matches(Routes[j], path)]
    ELSE NoRoute

\* the router walks the routes in order and the first full match handles
\* the request
Resolve(path) ==
    IF \E i \in 1..Len(Routes) : Matches(Routes[i], path)
    THEN Routes[CHOOSE i \in 1..Len(Routes) :
                    /\ Matches(Routes[i], path)
                    /\ \A j \in 1..(i - 1) : ~Matches(Routes[j], path)]
    ELSE NoRoute

\* the code point of a character of the listing's texts
CodePoint(c) ==
    CASE c = "B" -> 66
      [] c = "C" -> 67
      [] c = "a" -> 97
      [] c = "b" -> 98
      [] c = "c" -> 99
      [] c = "x" -> 120
      [] OTHER   -> 0

\* strings in the store's default (binary) comparison: a < b
RECURSIVE StrLess(_, _)
StrLess(a, b) ==
    IF b = <<>> THEN FALSE
    ELSE IF a = <<>> THEN TRUE
    ELSE IF CodePoint(Head(a)) # CodePoint(Head(b))
         THEN CodePoint(Head(a)) < CodePoint(Head(b))
         ELSE StrLess(Tail(a), Tail(b))

\* the store's ordering of sort keys: a missing or null field sorts before
\* every string
KeyLess(a, b) ==
    IF a.t = "str" /\ b.t = "str" THEN StrLess(a.s, b.s)
    ELSE a.t # "str" /\ b.t = "str"

\* the documents of a find(query), in the order the store walks them
RECURSIVE FindAll(_, _)
FindAll(natural, query) ==
    IF natural = <<>> THEN <<>>
    ELSE (IF \A k \in DOMAIN query :
                 k \in DOMAIN Head(natural) /\ Head(natural)[k] = query[k]
          THEN <<Head(natural)>> ELSE <<>>)
         \o FindAll(Tail(natural), query)

RECURSIVE InsertByKey(_, _, _)
InsertByKey(sorted, doc, key) ==
    IF sorted = <<>> THEN <<doc>>
    ELSE IF KeyLess(Get(doc, key), Get(Head(sorted), key))
         THEN <<doc>> \o sorted
         ELSE <<Head(sorted)>> \o InsertByKey(Tail(sorted), doc, key)

\* cursor.sort(key, 1): ascending on the key, documents with equal keys in
\* the order the store walked them
RECURSIVE Sort(_, _)
Sort(docs, key) ==
    IF docs = <<>> THEN <<>>
    ELSE InsertByKey(Sort(SubSeq(docs, 1, Len(docs) - 1), key),
                     docs[Len(docs)], key)

\* variant: the filter is added whenever the parameter is not None
Query_IsNotNone(category) ==
    IF category.t = "str" THEN [k \in {"category"} |-> category] ELSE <<>>

\* query = {}; if category: query["category"] = category
Query(category) ==
    IF Truthy(category) THEN [k \in {"category"} |-> category] ELSE <<>>

\* word_dict = dict(word_doc) with 'id' = str(_id) in place of '_id'
WordDict(word_doc) ==
    IF "_id" \in DOMAIN word_doc
    THEN [k \in (DOMAIN word_doc \ {"_id"}) \cup {"id"} |->
             IF k = "id" THEN Str(word_doc["_id"].s) ELSE word_doc[k]]
    ELSE word_doc

\* the handler registered at line 218
get_words(natural, category) ==
    LET cursor == Sort(FindAll(natural, Query(category)), "french")
    IN  [status |-> 200,
         body |-> [i \in 1..Len(cursor) |-> WordDict(cursor[i])]]

\* the fields Word declares without a default
WordRequired == {"french", "shimaore", "kibouchi", "category"}

\* Word(**word_dict) raises a ValidationError
WordInvalid(word_dict) ==
    \E k \in WordRequired : k \notin DOMAIN word_dict \/ word_dict[k].t # "str"

\* dict_to_word(word).dict(), for the fields the listing's documents hold
\* (the other fields of Word carry their defaults)
dict_to_word(word) ==
    [k \in WordRequired \cup {"id"} |->
        IF k \in DOMAIN WordDict(word) THEN WordDict(word)[k] ELSE None]

\* the handler registered at line 269: no sort, no try
get_words_second(natural, category) ==
    LET words == FindAll(natural, Query(category))
    IN  IF \E i \in 1..Len(words) : WordInvalid(WordDict(words[i]))
        THEN [status |-> 500, body |-> <<>>]
        ELSE [status |-> 200,
              body |-> [i \in 1..Len(words) |-> dict_to_word(words[i])]]

\* the endpoint of the resolved route is called
Serve(route, natural, category) ==
    CASE route.line = 219 -> get_words(natural, category)
      [] route.line = 270 -> get_words_second(natural, category)
      [] OTHER            -> [status |-> 404, body |-> <<>>]

\* the entries the listing's store may hold: french, category
MaxWords == 3

EntryKinds ==
    { <<Str(<<"b">>),      Str(<<"c">>)>>,
      <<Str(<<"a">>),      Str(<<"c">>)>>,
      <<Str(<<"a", "b">>), Str(<<"c", "c">>)>>,
      <<Str(<<"B">>),      Str(<<"C">>)>>,
      <<Absent,            Str(<<"c">>)>>,
      <<Str(<<"a">>),      Absent>> }

Entry(i, kind) ==
    Document([k \in {"_id", "french", "shimaore", "kibouchi", "category"} |->
        CASE k = "_id"      -> ObjectId(<<Digit[i]>>)
          [] k = "french"   -> kind[1]
          [] k = "category" -> kind[2]
          [] OTHER          -> Str(<<"x">>)])

Stores ==
    UNION { { { Entry(i, kinds[i]) : i \in 1..n } :
                kinds \in [1..n -> EntryKinds] } : n \in 0..MaxWords }

\* category: absent from the query string, empty, or a text
CategoryParams == {None, Str(<<>>), Str(<<"c">>), Str(<<"c", "c">>)}

\* the orders in which the store may walk a collection
NaturalOrders(collection) ==
    { f \in [1..Cardinality(collection) -> collection] :
        \A i, j \in 1..Cardinality(collection) : f[i] = f[j] => i = j }

\* query parameters get_words does not declare: search, limit, skip
UndeclaredParams ==
    { [search |-> None,          limit |-> None,      skip |-> None],
      [search |-> Str(<<"b">>),  limit |-> None,      skip |-> None],
      [search |-> None,          limit |-> IntVal(1), skip |-> IntVal(0)],
      [search |-> None,          limit |-> IntVal(1), skip |-> IntVal(1)] }

\* the JSON document the framework makes of the handler's return value: a
\* list becomes an array, which has items and no named member
Payload(resp) == [t |-> "array", items |-> resp.body, members |-> <<>>]

WordsPath == <<"api", "words">>

\* variant: word_dict is the stored document itself, so that the renaming
\* of _id shows in the collection
GetWords_InStore ==
    /\ words_request = NoWordsRequest
    /\ \E category \in CategoryParams, undeclared \in UndeclaredParams,
          natural \in NaturalOrders(words_collection) :
        /\ words_request' = [path |-> WordsPath, category |-> category,
                             search |-> undeclared.search,
                             limit |-> undeclared.limit, skip |-> undeclared.skip]
        /\ words_response' = Serve(Resolve(WordsPath), natural, category)
        /\ words_collection' =
               { IF \E i \in 1..Len(FindAll(natural, Query(category))) :
                       FindAll(natural, Query(category))[i] = d
                 THEN WordDict(d) ELSE d : d \in words_collection }
    /\ UNCHANGED <<request, response, frame, sentenceVars, wordVars, badgeVars>>

\* GET /api/words
GetWords ==
    /\ words_request = NoWordsRequest
    /\ \E category \in CategoryParams, undeclared \in UndeclaredParams,
          natural \in NaturalOrders(words_collection) :
        /\ words_request' = [path |-> WordsPath, category |-> category,
                             search |-> undeclared.search,
                             limit |-> undeclared.limit, skip |-> undeclared.skip]
        /\ words_response' = Serve(Resolve(WordsPath), natural, category)
    /\ UNCHANGED <<audioVars, sentenceVars, wordVars, badgeVars>>

\* the response has been sent
EndOfWordsRequest ==
    /\ words_request # NoWordsRequest
    /\ words_request' = NoWordsRequest
    /\ words_response' = NoWordsResponse
    /\ UNCHANGED <<audioVars, sentenceVars, wordVars, badgeVars>>

WordsInit ==
    /\ words_collection \in Stores
    /\ sentences_collection = <<>>
    /\ AudioIdle
    /\ SentencesIdle
    /\ ListingIdle
    /\ WordIdle
    /\ BadgesIdle

WordsNext == GetWords \/ EndOfWordsRequest

WordsSpec == WordsInit /\ [][WordsNext]_vars

-----------------------------------------------------------------------------
(* Properties of get_words                                                 *)

\* a is before b, or equal to it, in lexicographic order of code points
LexLeq(a, b) ==
    \/ /\ Len(a) <= Len(b)
       /\ \A i \in 1..Len(a) : a[i] = b[i]
    \/ \E k \in 1..Min(Len(a), Len(b)) :
        /\ \A i \in 1..(k - 1) : a[i] = b[i]
        /\ CodePoint(a[k]) < CodePoint(b[k])

\* a listing request has been answered
Listed == words_request.path = WordsPath

\* C19: GET /api/words returns its items in ascending lexicographic order
\* of the French field, for every store content and every category filter,
\* although two handlers are registered on the path.
C19_ListingSortedByFrench ==
    Listed =>
        LET body == words_response.body
        IN  /\ words_response.status = 200
            /\ \A i, j \in 1..Len(body) :
                (i < j /\ "french" \in DOMAIN body[i] /\ "french" \in DOMAIN body[j])
                    => LexLeq(body[i]["french"].s, body[j]["french"].s)
            /\ \A i, j \in 1..Len(body) :
                (i < j /\ "french" \in DOMAIN body[i]) => "french" \in DOMAIN body[j]

C19_Witness ==
    /\ Listed
    /\ words_request.category = None
    /\ Len(words_response.body) = 3
    /\ Get(words_response.body[1], "french") = Str(<<"B">>)
    /\ Get(words_response.body[2], "french") = Str(<<"a">>)
    /\ Get(words_response.body[3], "french") = Str(<<"a", "b">>)
    /\ words_response.body[1]["id"] = Str(<<"3">>)

\* the stored entries the listing returned, each exactly once
Returned(entries) ==
    LET body == words_response.body
    IN  /\ Len(body) = Cardinality(entries)
        /\ { body[i] : i \in 1..Len(body) } = { WordDict(d) : d \in entries }

HasCategory(d, category) == "category" \in DOMAIN d /\ d["category"] = category

\* C20 (as stated): with a category in the request the listing returns the
\* stored entries whose category is that string exactly, all of them and no
\* other; with no category it returns every stored entry.
C20_ExactCategoryWhenSupplied ==
    Listed =>
        IF words_request.category # None
        THEN Returned({ d \in words_collection :
                          HasCategory(d, words_request.category) })
        ELSE Returned(words_collection)

\* C20 (amended): the same for a non-empty category; an empty category
\* string is treated as no category.
C20_ExactCategoryWhenNonEmpty ==
    Listed =>
        IF words_request.category \notin {None, Str(<<>>)}
        THEN Returned({ d \in words_collection :
                          HasCategory(d, words_request.category) })
        ELSE Returned(words_collection)

C20_Witness ==
    /\ Listed
    /\ words_request.category = Str(<<"c">>)
    /\ Cardinality(words_collection) = 3
    /\ \E d \in words_collection : HasCategory(d, Str(<<"c", "c">>))
    /\ \E d \in words_collection : HasCategory(d, Str(<<"C">>))
    /\ Len(words_response.body) = 1
    /\ words_response.body[1]["category"] = Str(<<"c">>)

-----------------------------------------------------------------------------
(* Further properties of get_word_audio_by_language                        *)

\* C27: a variant outside {shimaore, kibouchi} is answered 400 "invalid
\* variant" before the store is read: no entry is looked up, whether the
\* identifier is known, unknown or malformed.
C27_InvalidVariantFirst ==
    (request # NoRequest /\ request.lang \notin Langs) =>
        /\ response.status = 400
        /\ response.detail = DetailLang
        /\ response.cause = NoException
        /\ frame = NoFrame

C27_Witness ==
    /\ request.lang = "french"
    /\ request.word_id = ExtZ
    /\ response.status = 400
    /\ response.detail = DetailLang

\* the audio fields and the flag of a variant
VariantKeys(lang) == {CurrentKey(lang), MidKey(lang), LegacyKey(lang), FlagKey(lang)}

OtherVariant(lang) == IF lang = "shimaore" THEN "kibouchi" ELSE "shimaore"

\* the entry with the fields of one variant replaced
WithVariant(doc, lang, values) ==
    Document([k \in DOMAIN doc \cup VariantKeys(lang) |->
        IF k \in VariantKeys(lang) THEN values[k] ELSE doc[k]])

\* values the fields of a variant may be given
VariantValues(lang) ==
    [VariantKeys(lang) -> {Absent, Str(<<"o", "/", "v">>), Bool(TRUE)}]

\* the answer to the request in progress is the same whatever the fields of
\* the other variant hold
OtherVariantIgnored ==
    (request # NoRequest /\ request.lang \in Langs
        /\ DOMAIN FindWord(words_collection, request.word_id) # {}) =>
        LET doc == FindWord(words_collection, request.word_id)
        IN  \A values \in VariantValues(OtherVariant(request.lang)) :
                get_word_audio_by_language(
                    (words_collection \ {doc})
                        \cup {WithVariant(doc, OtherVariant(request.lang), values)},
                    request.word_id, request.lang).response = response

\* the entry of the request has audio for the other variant only
OnlyOtherVariant ==
    LET doc == FindWord(words_collection, request.word_id)
    IN  /\ request # NoRequest /\ request.lang \in Langs
        /\ DOMAIN doc # {}
        /\ Truthy(Get(doc, "dual_audio_system"))
        /\ \A k \in VariantKeys(request.lang) \ {FlagKey(request.lang)} :
               ~Truthy(Get(doc, k))
        /\ \E k \in VariantKeys(OtherVariant(request.lang)) : Truthy(Get(doc, k))

\* C29: the resolution for one variant depends on that variant's fields
\* only: the answer is unchanged by every value of the other variant's
\* fields and flag, and an entry with audio for the other variant only is
\* answered not-found.
C29_VariantIndependence ==
    /\ OtherVariantIgnored
    /\ OnlyOtherVariant => response.status = 404

-----------------------------------------------------------------------------
(* Further properties of get_sentences                                     *)

\* the record carries the value of every filter of the request, a
\* difficulty of 0 excepted
MatchesSupplied(record) ==
    /\ sentences_request.difficulty \notin {None, IntVal(0)} =>
           ("difficulty" \in DOMAIN record
               /\ record["difficulty"] = sentences_request.difficulty)
    /\ sentences_request.tense # None =>
           ("tense" \in DOMAIN record /\ record["tense"] = sentences_request.tense)

\* the same, an empty tense excepted as well
MatchesNonEmpty(record) ==
    /\ sentences_request.difficulty \notin {None, IntVal(0)} =>
           ("difficulty" \in DOMAIN record
               /\ record["difficulty"] = sentences_request.difficulty)
    /\ sentences_request.tense \notin {None, Str(<<>>)} =>
           ("tense" \in DOMAIN record /\ record["tense"] = sentences_request.tense)

\* C30 (as stated): with a difficulty and/or a tense in the request, every
\* returned record carries each supplied filter value exactly, at most limit
\* records are returned for a limit >= 0, none of them twice, and a
\* difficulty of 0 filters nothing.
C30_FilteredSelection ==
    (Filtered /\ sentences_response.status = 200) =>
        LET body == sentences_response.body
            pool == sentences_collection
            matching == { i \in 1..Len(pool) : MatchesSupplied(pool[i]) }
        IN  /\ \A i \in 1..Len(body) : MatchesSupplied(body[i])
            /\ \A i, j \in 1..Len(body) : body[i]["_id"] = body[j]["_id"] => i = j
            /\ { body[i] : i \in 1..Len(body) } \subseteq
                   { AsReturned(pool[i]) : i \in matching }
            /\ sentences_request.limit >= 0 =>
                   Len(body) = Min(sentences_request.limit, Cardinality(matching))

\* C30 (amended): the same, where an empty tense filters nothing either.
C30_FilteredSelectionNonEmpty ==
    (Filtered /\ sentences_response.status = 200) =>
        LET body == sentences_response.body
            pool == sentences_collection
            matching == { i \in 1..Len(pool) : MatchesNonEmpty(pool[i]) }
        IN  /\ \A i \in 1..Len(body) : MatchesNonEmpty(body[i])
            /\ \A i, j \in 1..Len(body) : body[i]["_id"] = body[j]["_id"] => i = j
            /\ { body[i] : i \in 1..Len(body) } \subseteq
                   { AsReturned(pool[i]) : i \in matching }
            /\ sentences_request.limit >= 0 =>
                   Len(body) = Min(sentences_request.limit, Cardinality(matching))

C30_Witness ==
    /\ Filtered
    /\ sentences_request.difficulty = IntVal(0)
    /\ sentences_request.tense = Str(<<"p", "a">>)
    /\ sentences_request.limit = 3
    /\ sentences_response.status = 200
    /\ Len(sentences_response.body) = 2
    /\ \E i \in 1..2 : sentences_response.body[i]["difficulty"] = IntVal(2)
    /\ \E i \in 1..2 : sentences_response.body[i]["difficulty"] = IntVal(1)

-----------------------------------------------------------------------------
(* Further properties of get_words                                         *)

\* the named member of a JSON document, Absent when it has none
Member(payload, key) ==
    IF payload.t = "object" /\ key \in DOMAIN payload.members
    THEN payload.members[key]
    ELSE Absent

\* the stored entries the category filter of the request matches
Matched ==
    IF Truthy(words_request.category)
    THEN { d \in words_collection : HasCategory(d, words_request.category) }
    ELSE words_collection

\* C21: the listing reports a total equal to the number of entries matching
\* the predicate, over the full matched set and whatever limit and skip are.
C21_TotalOverMatchedSet ==
    Listed =>
        Member(Payload(words_response), "total") = IntVal(Cardinality(Matched))

Lower(c) ==
    CASE c = "B" -> "b"
      [] c = "C" -> "c"
      [] OTHER   -> c

\* needle occurs in text, letter case aside
ContainsIgnoringCase(text, needle) ==
    \E i \in 0..(Len(text) - Len(needle)) :
        \A j \in 1..Len(needle) : Lower(text[i + j]) = Lower(needle[j])

TextFields == {"french", "shimaore", "kibouchi"}

SearchMatches(d, search) ==
    \E k \in TextFields :
        /\ k \in DOMAIN d
        /\ d[k].t = "str"
        /\ ContainsIgnoringCase(d[k].s, search.s)

\* C22: with a search text in the request, an entry is returned if and only
\* if the text is a case-insensitive substring of its french, shimaore or
\* kibouchi field.
C22_SearchBySubstring ==
    (Listed /\ words_request.search # None) =>
        Returned({ d \in Matched : SearchMatches(d, words_request.search) })

-----------------------------------------------------------------------------
(* The single-word operations on /api/words/{word_id}                      *)

DetailWordNotFound  == "Word not found"
DetailInvalidWordId == "Invalid word ID"
MessageDeleted      == "Word deleted successfully"

InvalidId       == [kind |-> "InvalidId",       status |-> 0, detail |-> ""]
ValidationError == [kind |-> "ValidationError", status |-> 0, detail |-> ""]

WordRaised(exc, cause) ==
    [status |-> exc.status, detail |-> exc.detail, cause |-> cause, body |-> NoDoc]

WordReturned(body) ==
    [status |-> 200, detail |-> "", cause |-> NoException, body |-> body]

\* `except:` without a class closes the try block of the three handlers: it
\* catches whatever the block raised, the handler's own HTTPException too
BareExcept(exc) == WordRaised(HTTPException(400, DetailInvalidWordId), exc)

\* GET: the response, and whether find_one matched
get_word(collection, word_id) ==
    IF ~ObjectIdValid(word_id)
    THEN [response |-> BareExcept(InvalidId), matched |-> Unbound]
    ELSE LET word == FindOne(collection, "_id", ObjectId(word_id))
         IN  IF DOMAIN word # {}
             THEN [response |-> IF WordInvalid(WordDict(word))
                                THEN BareExcept(ValidationError)
                                ELSE WordReturned(dict_to_word(word)),
                   matched  |-> Bool(TRUE)]
             ELSE [response |-> BareExcept(HTTPException(404, DetailWordNotFound)),
                   matched  |-> Bool(FALSE)]

\* the fields of WordCreate
WordCreateKeys == {"french", "shimaore", "kibouchi", "category",
                   "image_base64", "image_url", "difficulty"}

WordCreate(french, category) ==
    [k \in WordCreateKeys |->
        CASE k = "french"     -> french
          [] k = "category"   -> category
          [] k = "difficulty" -> IntVal(1)
          [] k \in {"shimaore", "kibouchi"} -> Str(<<"x">>)
          [] OTHER            -> None]

\* update_one({"_id": oid}, {"$set": word_dict})
UpdateOne(collection, oid, word_dict) ==
    { IF "_id" \in DOMAIN d /\ d["_id"] = oid
      THEN [k \in DOMAIN d \cup DOMAIN word_dict |->
               IF k \in DOMAIN word_dict THEN word_dict[k] ELSE d[k]]
      ELSE d : d \in collection }

\* delete_one({"_id": oid})
DeleteOne(collection, oid) ==
    { d \in collection : ~("_id" \in DOMAIN d /\ d["_id"] = oid) }

\* PUT: the response, the store afterwards, and result.matched_count
update_word(collection, word_id, word) ==
    IF ~ObjectIdValid(word_id)
    THEN [response |-> BareExcept(InvalidId), matched |-> Unbound,
          collection |-> collection]
    ELSE LET updated == UpdateOne(collection, ObjectId(word_id), word)
             updated_word == FindOne(updated, "_id", ObjectId(word_id))
         IN  IF DOMAIN updated_word # {}
             THEN [response |-> IF WordInvalid(WordDict(updated_word))
                                THEN BareExcept(ValidationError)
                                ELSE WordReturned(dict_to_word(updated_word)),
                   matched  |-> Bool(TRUE),
                   collection |-> updated]
             ELSE [response |-> BareExcept(HTTPException(404, DetailWordNotFound)),
                   matched  |-> Bool(FALSE),
                   collection |-> collection]

\* DELETE: the response, the store afterwards, and result.deleted_count
delete_word(collection, word_id) ==
    IF ~ObjectIdValid(word_id)
    THEN [response |-> BareExcept(InvalidId), matched |-> Unbound,
          collection |-> collection]
    ELSE IF DOMAIN FindOne(collection, "_id", ObjectId(word_id)) # {}
    THEN [response |-> WordReturned([message |-> MessageDeleted]),
          matched  |-> Bool(TRUE),
          collection |-> DeleteOne(collection, ObjectId(word_id))]
    ELSE [response |-> BareExcept(HTTPException(404, DetailWordNotFound)),
          matched  |-> Bool(FALSE),
          collection |-> collection]

\* a stored word under a well-formed identifier
WordWithId(oid, kind) ==
    Document([k \in {"_id", "french", "shimaore", "kibouchi", "category"} |->
        CASE k = "_id"      -> ObjectId(oid)
          [] k = "french"   -> kind[1]
          [] k = "category" -> kind[2]
          [] OTHER          -> Str(<<"x">>)])

StoredIds == {OidA, OidC}

WordStores ==
    UNION { { { WordWithId(oid, kinds[oid]) : oid \in ids } :
                kinds \in [ids -> EntryKinds] } : ids \in SUBSET StoredIds }

WordCreates == { WordCreate(Str(<<"a">>), Str(<<"c">>)),
                 WordCreate(Str(<<"b">>), Str(<<"c", "c">>)) }

\* GET /api/words/{word_id}
GetWord ==
    /\ word_request = NoWordRequest
    /\ \E word_id \in WordIds :
        LET r == get_word(words_collection, word_id)
        IN  /\ word_request' = [method |-> "GET", word_id |-> word_id, word |-> NoDoc]
            /\ word_response' = r.response
            /\ word_frame' = [matched |-> r.matched]
            /\ UNCHANGED <<audioVars, sentenceVars, listingVars, badgeVars>>

\* PUT /api/words/{word_id}
UpdateWord ==
    /\ word_request = NoWordRequest
    /\ \E word_id \in WordIds, word \in WordCreates :
        LET r == update_word(words_collection, word_id, word)
        IN  /\ word_request' = [method |-> "PUT", word_id |-> word_id, word |-> word]
            /\ word_response' = r.response
            /\ word_frame' = [matched |-> r.matched]
            /\ words_collection' = r.collection
            /\ UNCHANGED <<request, response, frame, sentenceVars, listingVars, badgeVars>>

\* DELETE /api/words/{word_id}
DeleteWord ==
    /\ word_request = NoWordRequest
    /\ \E word_id \in WordIds :
        LET r == delete_word(words_collection, word_id)
        IN  /\ word_request' = [method |-> "DELETE", word_id |-> word_id, word |-> NoDoc]
            /\ word_response' = r.response
            /\ word_frame' = [matched |-> r.matched]
            /\ words_collection' = r.collection
            /\ UNCHANGED <<request, response, frame, sentenceVars, listingVars, badgeVars>>

\* the response has been sent
EndOfWordRequest ==
    /\ word_request # NoWordRequest
    /\ word_request' = NoWordRequest
    /\ word_response' = NoWordResponse
    /\ word_frame' = NoWordFrame
    /\ UNCHANGED <<audioVars, sentenceVars, listingVars, badgeVars>>

WordInit ==
    /\ words_collection \in WordStores
    /\ sentences_collection = <<>>
    /\ AudioIdle
    /\ SentencesIdle
    /\ ListingIdle
    /\ WordIdle
    /\ BadgesIdle

WordNext == GetWord \/ UpdateWord \/ DeleteWord \/ EndOfWordRequest

WordSpec == WordInit /\ [][WordNext]_vars

\* C28: get_word, update_word and delete_word answer a well-formed
\* identifier that matches no stored word with 404 "Word not found", the
\* handler's own exception reaching the caller as raised, and a malformed
\* identifier with 400 "Invalid word ID".
C28_UnknownIdNotFound ==
    /\ (word_request # NoWordRequest /\ word_frame.matched = Bool(FALSE)) =>
          /\ word_response.status = 404
          /\ word_response.detail = DetailWordNotFound
    /\ (word_request # NoWordRequest /\ word_frame.matched = Unbound) =>
          /\ word_response.status = 400
          /\ word_response.detail = DetailInvalidWordId

-----------------------------------------------------------------------------
(* unlock_badge                                                            *)

UserNames == {"u", "v"}
BadgeIds  == {"b", "g"}

MessageUnlocked == "Badge unlocked"
MessageAlready  == "Badge already unlocked"

\* the position of the first record of the user, 0 when there is none
FirstOf(collection, user_name) ==
    IF \E i \in 1..Len(collection) : collection[i].user_name = user_name
    THEN CHOOSE i \in 1..Len(collection) :
            /\ collection[i].user_name = user_name
            /\ \A j \in 1..(i - 1) : collection[j].user_name # user_name
    ELSE 0

\* badges_collection.find_one({"user_name": user_name})
FindUserBadges(collection, user_name) ==
    IF FirstOf(collection, user_name) = 0
    THEN NoDoc
    ELSE collection[FirstOf(collection, user_name)]

\* badges_collection.update_one({"user_name": user_name}, {"$push": ...})
PushBadge(collection, user_name, badge_id) ==
    [i \in 1..Len(collection) |->
        IF i = FirstOf(collection, user_name)
        THEN [collection[i] EXCEPT !.badges = Append(@, badge_id)]
        ELSE collection[i]]

\* badges_collection.insert_one({"user_name": ..., "badges": [badge_id], ...})
InsertBadges(collection, user_name, badge_id) ==
    Append(collection, [user_name |-> user_name, badges |-> <<badge_id>>])

InList(x, list) == \E i \in 1..Len(list) : list[i] = x

\* variant: the handler is a plain function, which the framework runs on a
\* thread of its pool, so that calls overlap at any point
MayRun_ThreadPool(c) == TRUE

\* the handler is a coroutine without an await and its store calls block:
\* once the event loop has started a call it runs no other call before that
\* one returns
MayRun(c) == \A o \in Calls \ {c} : calls[o].pc # "found"

\* POST /api/badges/{user_name}/unlock/{badge_id} reaches the server
ReceiveUnlock ==
    \E c \in Calls :
        /\ calls[c].pc = "idle"
        /\ \E user_name \in UserNames, badge_id \in BadgeIds :
            calls' = [calls EXCEPT ![c] = [NoCall EXCEPT !.pc = "start",
                                                         !.user_name = user_name,
                                                         !.badge_id = badge_id]]
        /\ UNCHANGED <<user_badges, audioVars, sentenceVars, listingVars, wordVars>>

\* user_badges = badges_collection.find_one(...)
FindBadges ==
    \E c \in Calls :
        /\ calls[c].pc = "start"
        /\ MayRun(c)
        /\ calls' = [calls EXCEPT ![c].pc = "found",
                                  ![c].user_badges =
                                      FindUserBadges(user_badges, calls[c].user_name),
                                  ![c].overlapped =
                                      \E o \in Calls \ {c} : calls[o].pc # "idle"]
        /\ UNCHANGED <<user_badges, audioVars, sentenceVars, listingVars, wordVars>>

\* the branches on the record that was read, and the return
WriteBadges ==
    \E c \in Calls :
        /\ calls[c].pc = "found"
        /\ LET call == calls[c]
           IN  IF DOMAIN call.user_badges # {}
               THEN IF ~InList(call.badge_id, call.user_badges.badges)
                    THEN /\ user_badges' = PushBadge(user_badges, call.user_name,
                                                     call.badge_id)
                         /\ calls' = [calls EXCEPT ![c].pc = "done",
                                                   ![c].message = MessageUnlocked]
                    ELSE /\ user_badges' = user_badges
                         /\ calls' = [calls EXCEPT ![c].pc = "done",
                                                   ![c].message = MessageAlready]
               ELSE /\ user_badges' = InsertBadges(user_badges, call.user_name,
                                                   call.badge_id)
                    /\ calls' = [calls EXCEPT ![c].pc = "done",
                                              ![c].message = MessageUnlocked]
        /\ UNCHANGED <<audioVars, sentenceVars, listingVars, wordVars>>

\* the response has been sent
EndOfUnlock ==
    \E c \in Calls :
        /\ calls[c].pc = "done"
        /\ calls' = [calls EXCEPT ![c] = NoCall]
        /\ UNCHANGED <<user_badges, audioVars, sentenceVars, listingVars, wordVars>>

BadgesInit ==
    /\ words_collection = {}
    /\ sentences_collection = <<>>
    /\ AudioIdle
    /\ SentencesIdle
    /\ ListingIdle
    /\ WordIdle
    /\ BadgesIdle

BadgesNext == ReceiveUnlock \/ FindBadges \/ WriteBadges \/ EndOfUnlock

BadgesSpec == BadgesInit /\ [][BadgesNext]_vars

\* C26: whatever the order in which unlock_badge requests arrive and are
\* served, a user has at most one badges record and no badge id occurs twice
\* in a record.
C26_OneRecordEachBadgeOnce ==
    /\ \A i, j \in 1..Len(user_badges) :
          user_badges[i].user_name = user_badges[j].user_name => i = j
    /\ \A i \in 1..Len(user_badges) :
          \A k, l \in 1..Len(user_badges[i].badges) :
             user_badges[i].badges[k] = user_badges[i].badges[l] => k = l

\* two requests for the same badge of a user without a record were in the
\* server together and both have been answered
C26_Witness ==
    /\ calls[1].pc = "done" /\ calls[2].pc = "done"
    /\ calls[1].user_name = calls[2].user_name
    /\ calls[1].badge_id = calls[2].badge_id
    /\ calls[1].overlapped /\ calls[2].overlapped
    /\ calls[1].message = MessageUnlocked
    /\ calls[2].message = MessageAlready
    /\ user_badges = <<[user_name |-> calls[1].user_name,
                        badges |-> <<calls[1].badge_id>>]>>

-----------------------------------------------------------------------------
(* The three read services side by side                                    *)

\* an entry with a recording for shimaore only
AudioEntry ==
    Document([k \in WordKeys \cup {"french", "shimaore", "kibouchi"} |->
        CASE k = "_id"               -> ObjectId(OidA)
          [] k = "id"                -> Str(ExtW)
          [] k = "dual_audio_system" -> Bool(TRUE)
          [] k = "category"          -> Str(<<"c">>)
          [] k = "french"            -> Str(<<"a", "b">>)
          [] k \in {"shimaore", "kibouchi"} -> Str(<<"x">>)
          [] k = "audio_shimaore"    -> Str(<<"n", "/", "b">>)
          [] OTHER                   -> Absent])

ConcurrentStores ==
    { {AudioEntry, Entry(1, kind)} :
        kind \in { <<Str(<<"b">>), Str(<<"c">>)>>, <<Str(<<"a">>), Absent>> } }

ConcurrentPools ==
    { <<Sentence(1, k[1]), Sentence(2, k[2])>> :
        k \in { <<<<Str(<<"a", " ", "b">>), IntVal(1), Str(<<"p", "r">>)>>,
                  <<Str(<<"a", " ", "c">>), IntVal(2), Str(<<"p", "a">>)>>>>,
                <<<<Str(<<"b">>),           IntVal(1), Str(<<"p", "a">>)>>,
                  <<Str(<<" ">>),           IntVal(2), Str(<<"p", "r">>)>>>> } }

ConcurrentInit ==
    /\ words_collection \in ConcurrentStores
    /\ sentences_collection \in ConcurrentPools
    /\ AudioIdle
    /\ SentencesIdle
    /\ ListingIdle
    /\ WordIdle
    /\ BadgesIdle

\* an audio request, a listing request and the steps of a sentence request
\* in any order
ConcurrentNext == Next \/ WordsNext \/ SentencesNext

ConcurrentSpec == ConcurrentInit /\ [][ConcurrentNext]_vars

IsPermutation(a, b) ==
    /\ Len(a) = Len(b)
    /\ \E f \in [1..Len(a) -> 1..Len(b)] :
        /\ \A i, j \in 1..Len(a) : f[i] = f[j] => i = j
        /\ \A i \in 1..Len(a) : a[i] = b[f[i]]

\* the sentence documents are stored as they were: in their order, under
\* their ObjectId
AsStored ==
    \A i \in 1..Len(sentences_collection) :
        sentences_collection[i]["_id"] = ObjectId(<<Digit[i]>>)

C24_StoreUnchanged ==
    [][/\ words_collection' = words_collection
       /\ sentences_collection' = sentences_collection]_vars

\* the three services have answered, two of them with an error
C24_Witness ==
    /\ response.status = 500
    /\ words_response.status = 200
    /\ sentences_response.status = 500
    /\ words_collection \in ConcurrentStores
    /\ sentences_collection \in ConcurrentPools

====
